---- MODULE Spec2Model ----
(***************************************************************************)
(* A model of the thirtyfour WebDriver client core:                        *)
(*   src/src/webdriver.rs  - the WebDriver session (construction, the      *)
(*                           public operations, Drop)                      *)
(*   src/src/keys.rs       - Keys, TypingData and their Add impls          *)
(* The transport (RemoteConnectionAsync::execute) is the environment: each *)
(* call dispatches one Command and nondeterministically yields an error or *)
(* a JSON envelope.                                                        *)
(***************************************************************************)
EXTENDS Integers, Sequences, FiniteSets, TLC

VARIABLES
  phase,          \* "none" | "live" | "failed" | "dropped": life of the WebDriver value
  session_id,     \* WebDriver.session_id
  capabilities,   \* WebDriver.capabilities
  new_resp,       \* the new-session response WebDriver::new has just decoded
  last,           \* the last invocation: op, commands dispatched, outcomes, result
  ncalls,         \* number of invocations made so far
  handles,        \* WebElement / ActionChain values handed to the caller
  file,           \* the file screenshot() writes
  error_log,      \* records written with log::error!
  panicked,       \* a panic has unwound out of an operation
  td              \* keys.rs: operands and results of the last Add

vars == <<phase, session_id, capabilities, new_resp, last, ncalls, handles,
          file, error_log, panicked, td>>

session_vars == <<phase, session_id, capabilities, new_resp, last, ncalls,
                  handles, file, error_log, panicked>>

\* ---------------------------------------------------------------- bounds
MaxCalls == 2

MaxLen == 2

\* ------------------------------------------------------------------ keys.rs
Keys ==
  {
   "Null", "Cancel", "Help", "Backspace", "Tab", "Clear", "Return", "Enter",
   "Shift", "Control", "Alt", "Pause", "Escape", "Space", "PageUp", "PageDown",
   "End", "Home", "Left", "Up", "Right", "Down", "Insert", "Delete", "Semicolon",
   "Equals", "NumPad0", "NumPad1", "NumPad2", "NumPad3", "NumPad4", "NumPad5",
   "NumPad6", "NumPad7", "NumPad8", "NumPad9", "Multiply", "Add", "Separator",
   "Subtract", "Decimal", "Divide", "F1", "F2", "F3", "F4", "F5", "F6", "F7", "F8",
   "F9", "F10", "F11", "F12", "Meta", "Command"
  }

value(k) ==
  CASE k = "Null" -> 57344
    [] k = "Cancel" -> 57345
    [] k = "Help" -> 57346
    [] k = "Backspace" -> 57347
    [] k = "Tab" -> 57348
    [] k = "Clear" -> 57349
    [] k = "Return" -> 57350
    [] k = "Enter" -> 57351
    [] k = "Shift" -> 57352
    [] k = "Control" -> 57353
    [] k = "Alt" -> 57354
    [] k = "Pause" -> 57355
    [] k = "Escape" -> 57356
    [] k = "Space" -> 57357
    [] k = "PageUp" -> 57358
    [] k = "PageDown" -> 57359
    [] k = "End" -> 57360
    [] k = "Home" -> 57361
    [] k = "Left" -> 57362
    [] k = "Up" -> 57363
    [] k = "Right" -> 57364
    [] k = "Down" -> 57365
    [] k = "Insert" -> 57366
    [] k = "Delete" -> 57367
    [] k = "Semicolon" -> 57368
    [] k = "Equals" -> 57369
    [] k = "NumPad0" -> 57370
    [] k = "NumPad1" -> 57371
    [] k = "NumPad2" -> 57372
    [] k = "NumPad3" -> 57373
    [] k = "NumPad4" -> 57374
    [] k = "NumPad5" -> 57375
    [] k = "NumPad6" -> 57376
    [] k = "NumPad7" -> 57377
    [] k = "NumPad8" -> 57378
    [] k = "NumPad9" -> 57379
    [] k = "Multiply" -> 57380
    [] k = "Add" -> 57381
    [] k = "Separator" -> 57382
    [] k = "Subtract" -> 57383
    [] k = "Decimal" -> 57384
    [] k = "Divide" -> 57385
    [] k = "F1" -> 57393
    [] k = "F2" -> 57394
    [] k = "F3" -> 57395
    [] k = "F4" -> 57396
    [] k = "F5" -> 57397
    [] k = "F6" -> 57398
    [] k = "F7" -> 57399
    [] k = "F8" -> 57400
    [] k = "F9" -> 57401
    [] k = "F10" -> 57402
    [] k = "F11" -> 57403
    [] k = "F12" -> 57404
    [] k = "Meta" -> 57405
    [] k = "Command" -> 57405

\* the characters TypingData values are built from: a literal and two keys
Chars == {97, value("Shift"), value("Command")}

\* struct TypingData { data: Vec<char> }, any of which From<String> builds
TypingDatas == UNION {[1..n -> Chars] : n \in 0..MaxLen}

\* Vec::push
push(v, c) == Append(v, c)

\* Vec::extend(iter): pushes the items of the iterator one by one
RECURSIVE extend(_, _)
extend(v, it) ==
  IF it = <<>> THEN v ELSE extend(push(v, Head(it)), Tail(it))

\* Keys + Keys with the operands taken in the opposite order
Keys_add_swapped(self, rhs) ==
  <<value(rhs), value(self)>>

\* impl Add for Keys
Keys_add(self, rhs) ==
  <<value(self), value(rhs)>>

\* TypingData + TypingData that extends rhs by self
TypingData_add_rhs_first(self, rhs) ==
  extend(rhs, self)

\* impl Add for TypingData
TypingData_add(self, rhs) ==
  extend(self, rhs)

\* impl Add<Keys> for TypingData
TypingData_add_Keys(self, rhs) ==
  push(self, value(rhs))

TdNone ==
  [op |-> "none", k1 |-> "Null", k2 |-> "Null", a |-> <<>>, b |-> <<>>,
   c |-> <<>>, r |-> <<>>, r2 |-> <<>>, r3 |-> <<>>]

\* each step below evaluates one expression on operands drawn afresh
\* k1 + k2
AddKeys ==
  /\ td.op = "none"
  /\ \E k1 \in Keys, k2 \in Keys :
       td' = [TdNone EXCEPT !.op = "Keys+Keys", !.k1 = k1, !.k2 = k2,
                            !.r = Keys_add(k1, k2)]
  /\ UNCHANGED session_vars

\* t + k
AddTypingDataKeys ==
  /\ td.op = "none"
  /\ \E t \in TypingDatas, k \in Keys :
       td' = [TdNone EXCEPT !.op = "TypingData+Keys", !.a = t, !.k1 = k,
                            !.r = TypingData_add_Keys(t, k)]
  /\ UNCHANGED session_vars

\* a + b, (a + b) + c and a + (b + c)
AddTypingData ==
  /\ td.op = "none"
  /\ \E a \in TypingDatas, b \in TypingDatas, c \in TypingDatas :
       td' = [TdNone EXCEPT !.op = "TypingData+TypingData",
                            !.a = a, !.b = b, !.c = c,
                            !.r = TypingData_add(a, b),
                            !.r2 = TypingData_add(TypingData_add(a, b), c),
                            !.r3 = TypingData_add(a, TypingData_add(b, c))]
  /\ UNCHANGED session_vars

\* ------------------------------------------------- JSON values (serde_json)
\* A JSON value: its kind k, the text s of a string (or the id of an element
\* object), the shape of an object or of the items of an array, and the items.
JV(k, s, shape, ids) == [k |-> k, s |-> s, shape |-> shape, ids |-> ids]

JAbsent == JV("absent", "", "", <<>>)

JNull == JV("null", "", "", <<>>)

JNum == JV("num", "", "", <<>>)

JStr(s) == JV("str", s, "", <<>>)

JObj(shape, s) == JV("obj", s, shape, <<>>)

JArr(shape, ids) == JV("arr", "", shape, ids)

\* the `value` payloads the server answers a session command with
OpValues ==
  {JAbsent, JNull, JNum, JStr("QUJD"), JStr("!!"),
   JObj("rect", ""), JObj("cookie", "c1"), JObj("element", "e1"),
   JObj("error", "no such element"),
   JArr("str", <<"w1", "w2">>), JArr("cookie", <<"c1">>),
   JArr("element", <<"e1", "e2">>)}

\* the payloads answering a command whose response value is discarded
UnitValues == {JNull, JStr("QUJD")}

\* v["value"]: serde_json's Index yields Null for a key that is absent
Index_value(v) == IF v.value.k = "absent" THEN JNull ELSE v.value

\* ----------------------------------------------------------- the transport
TransportErrors == {"ConnectionError", "HttpError"}

Failure(e) == [ok |-> FALSE, err |-> e, v |-> [value |-> JAbsent]]

Success(x) == [ok |-> TRUE, err |-> "", v |-> [value |-> x]]

\* what conn.execute(..).await yields
Outcomes == {Failure(e) : e \in TransportErrors} \cup {Success(x) : x \in OpValues}

UnitOutcomes == {Failure(e) : e \in TransportErrors} \cup {Success(x) : x \in UnitValues}

\* a Command variant with the session id it borrows and its operand
Cmd(name, sid, arg) == [cmd |-> name, sid |-> sid, arg |-> arg]

\* ------------------------------------------------------ WebDriverResult<T>
RV(t, s, ids) == [t |-> t, s |-> s, ids |-> ids, sid |-> ""]

\* a result that carries a clone of the session id (WebElement, ActionChain)
RVH(t, s, ids, sid) == [t |-> t, s |-> s, ids |-> ids, sid |-> sid]

Unit == RV("unit", "", <<>>)

Ok(val) == [ok |-> TRUE, err |-> "", val |-> val]

Err(e) == [ok |-> FALSE, err |-> e, val |-> Unit]

\* .map(|_| ())
map_unit(out) == IF out.ok THEN Ok(Unit) ELSE Err(out.err)

\* common::connection_common::unwrap::<T>, T named by `shape`
unwrap(shape, v) ==
  IF v.k = "obj" /\ v.shape = "error" THEN Err("ProtocolError")
  ELSE IF shape = "str" /\ v.k = "str" THEN Ok(RV("str", v.s, <<>>))
  ELSE IF shape # "str" /\ v.k = "obj" /\ v.shape = shape THEN Ok(RV(shape, v.s, <<>>))
  ELSE Err("DecodeError")

\* common::connection_common::unwrap_vec::<T>
unwrap_vec(shape, v) ==
  IF v.k = "obj" /\ v.shape = "error" THEN Err("ProtocolError")
  ELSE IF v.k = "arr" /\ v.shape = shape THEN Ok(RV("vec", shape, v.ids))
  ELSE Err("DecodeError")

\* webelement::unwrap_element_async(conn, session_id, value)
unwrap_element_async(sid, v) ==
  LET r == unwrap("element", v)
  IN  IF r.ok THEN Ok(RVH("element", r.val.s, <<>>, sid)) ELSE r

\* webelement::unwrap_elements_async(conn, session_id, value)
unwrap_elements_async(sid, v) ==
  LET r == unwrap_vec("element", v)
  IN  IF r.ok THEN Ok(RVH("vec", "element", r.val.ids, sid)) ELSE r

\* Value::as_str().unwrap_or_default().to_owned()
as_str_or_default(v) == IF v.k = "str" THEN v.s ELSE ""

\* base64::decode on the strings of OpValues
decode(s) ==
  IF s = "QUJD" THEN Ok(RV("bytes", "ABC", <<>>))
  ELSE IF s = "" THEN Ok(RV("bytes", "", <<>>))
  ELSE Err("Base64Error")

\* ------------------------------------------------ the new-session response
\* a field of a JSON object: absent, a number, or a string
F(k, s) == [k |-> k, s |-> s]

FAbsent == F("absent", "")

SessionIdFields == {FAbsent, F("num", ""), F("str", ""), F("str", "A"), F("str", "B")}

SnakeFields == {FAbsent, F("str", ""), F("str", "B")}

CapabilityFields == {FAbsent, F("obj", "caps")}

NV(k, sid, caps) == [k |-> k, sessionId |-> sid, capabilities |-> caps]

\* the `value` member: absent, null, a string, or an object
NewValues ==
  {NV(k, FAbsent, FAbsent) : k \in {"absent", "null", "str"}}
    \cup {NV("obj", sid, caps) : sid \in SessionIdFields, caps \in CapabilityFields}

Resp(k, sid, snake, val) ==
  [k |-> k, sessionId |-> sid, session_id |-> snake, value |-> val]

NoResp == Resp("none", FAbsent, FAbsent, NV("absent", FAbsent, FAbsent))

\* the JSON the server answers NewSession with: an object, or not an object
NewResponses ==
  {Resp("null", FAbsent, FAbsent, NV("absent", FAbsent, FAbsent))}
    \cup {Resp("obj", sid, snake, val) :
            sid \in SessionIdFields, snake \in SnakeFields, val \in NewValues}

\* a String field marked #[serde(default)]
de_String_default(f) ==
  IF f.k = "absent" THEN Ok(RV("str", "", <<>>))
  ELSE IF f.k = "str" THEN Ok(RV("str", f.s, <<>>))
  ELSE Err("JsonError")

\* a serde_json::Value field marked #[serde(default)]
de_Value_default(f) == IF f.k = "absent" THEN "null" ELSE f.s

\* the JSON key each struct field is read from
ConnectionData_session_id_key == "sessionId"

ConnectionResp_session_id_key == "session_id"

\* #[derive(Deserialize)] struct ConnectionData
de_ConnectionData(v) ==
  IF v.k # "obj" THEN Err("JsonError")
  ELSE LET sid == de_String_default(v[ConnectionData_session_id_key])
       IN  IF ~sid.ok THEN sid
           ELSE Ok(RV("ConnectionData", sid.val.s,
                      <<de_Value_default(v.capabilities)>>))

\* #[derive(Deserialize)] struct ConnectionResp
de_ConnectionResp(r) ==
  IF r.k # "obj" THEN Err("JsonError")
  ELSE LET top == de_String_default(r[ConnectionResp_session_id_key])
           data == IF r.value.k = "absent" THEN Err("JsonError")
                   ELSE de_ConnectionData(r.value)
       IN  IF ~top.ok THEN top
           ELSE IF ~data.ok THEN data
           ELSE Ok(RV("ConnectionResp", top.val.s, <<data.val.s, data.val.ids[1]>>))

\* SessionId::from(if resp.session_id.is_empty() { data.session_id } else { resp.session_id })
resolve_session_id(resp) == IF resp.s = "" THEN resp.ids[1] ELSE resp.s

NoFile == [exists |-> FALSE, content |-> ""]

NoCall == [op |-> "none", sent |-> <<>>, outs |-> <<>>, result |-> Ok(Unit)]

Call(op, cmds, outs, res) == [op |-> op, sent |-> cmds, outs |-> outs, result |-> res]

Init ==
  /\ phase = "none"
  /\ session_id = ""
  /\ capabilities = "null"
  /\ new_resp = NoResp
  /\ last = NoCall
  /\ ncalls = 0
  /\ handles = {}
  /\ file = NoFile
  /\ error_log = <<>>
  /\ panicked = FALSE
  /\ td = TdNone

\* WebDriver::new
new ==
  /\ phase = "none"
  /\ \E addr_ok \in BOOLEAN, ok \in BOOLEAN, e \in TransportErrors, r \in NewResponses :
       LET cmds == <<Cmd("NewSession", "", "capabilities")>>
           out == IF ok THEN Success(JAbsent) ELSE Failure(e)
           d == de_ConnectionResp(r)
       IN  IF ~addr_ok
           THEN /\ last' = Call("new", <<>>, <<>>, Err("InvalidUrl"))
                /\ phase' = "failed"
                /\ UNCHANGED <<session_id, capabilities, new_resp>>
           ELSE IF ~ok
           THEN /\ last' = Call("new", cmds, <<out>>, Err(e))
                /\ phase' = "failed"
                /\ UNCHANGED <<session_id, capabilities, new_resp>>
           ELSE IF ~d.ok
           THEN /\ last' = Call("new", cmds, <<out>>, Err(d.err))
                /\ phase' = "failed"
                /\ new_resp' = r
                /\ UNCHANGED <<session_id, capabilities>>
           ELSE /\ last' = Call("new", cmds, <<out>>, Ok(Unit))
                /\ phase' = "live"
                /\ new_resp' = r
                /\ session_id' = resolve_session_id(d.val)
                /\ capabilities' = d.val.ids[2]
  /\ UNCHANGED <<ncalls, handles, file, error_log, panicked, td>>

\* ------------------------------------------------- the public operations
\* a WebDriver exists and the caller may still invoke an operation on it
Live == phase = "live" /\ ncalls < MaxCalls

\* the operation returns to its caller
Returned(c) ==
  /\ last' = c
  /\ ncalls' = ncalls + 1
  /\ new_resp' = NoResp

\* every operation takes &self
Borrowed == UNCHANGED <<phase, session_id, capabilities, error_log, panicked, td>>

\* WebDriver::capabilities
capabilities_get ==
  /\ Live
  /\ Returned(Call("capabilities", <<>>, <<>>, Ok(RV("json", capabilities, <<>>))))
  /\ Borrowed
  /\ UNCHANGED <<handles, file>>

\* WebDriver::close
close ==
  /\ Live
  /\ \E out \in UnitOutcomes :
       Returned(Call("close", <<Cmd("CloseWindow", session_id, "")>>, <<out>>, map_unit(out)))
  /\ Borrowed
  /\ UNCHANGED <<handles, file>>

\* self.conn.execute(Command::DeleteSession(&self.session_id)).await.map(|_| ())
quit_call(out) ==
  Call("quit", <<Cmd("DeleteSession", session_id, "")>>, <<out>>, map_unit(out))

\* a quit that also empties the session id
quit_clears_session_id ==
  /\ Live
  /\ \E out \in UnitOutcomes : Returned(quit_call(out))
  /\ session_id' = ""
  /\ UNCHANGED <<phase, capabilities, error_log, panicked, td, handles, file>>

\* WebDriver::quit
quit ==
  /\ Live
  /\ \E out \in UnitOutcomes : Returned(quit_call(out))
  /\ Borrowed
  /\ UNCHANGED <<handles, file>>

\* WebDriver::get
get ==
  /\ Live
  /\ \E out \in UnitOutcomes :
       Returned(Call("get", <<Cmd("NavigateTo", session_id, "url")>>, <<out>>, map_unit(out)))
  /\ Borrowed
  /\ UNCHANGED <<handles, file>>

\* WebDriver::mazimize_window
mazimize_window ==
  /\ Live
  /\ \E out \in UnitOutcomes :
       Returned(Call("mazimize_window", <<Cmd("MaximizeWindow", session_id, "")>>, <<out>>, map_unit(out)))
  /\ Borrowed
  /\ UNCHANGED <<handles, file>>

\* WebDriver::minimize_window
minimize_window ==
  /\ Live
  /\ \E out \in UnitOutcomes :
       Returned(Call("minimize_window", <<Cmd("MinimizeWindow", session_id, "")>>, <<out>>, map_unit(out)))
  /\ Borrowed
  /\ UNCHANGED <<handles, file>>

\* WebDriver::fullscreen_window
fullscreen_window ==
  /\ Live
  /\ \E out \in UnitOutcomes :
       Returned(Call("fullscreen_window", <<Cmd("FullscreenWindow", session_id, "")>>, <<out>>, map_unit(out)))
  /\ Borrowed
  /\ UNCHANGED <<handles, file>>

\* WebDriver::set_window_rect
set_window_rect ==
  /\ Live
  /\ \E out \in UnitOutcomes :
       Returned(Call("set_window_rect", <<Cmd("SetWindowRect", session_id, "rect")>>, <<out>>, map_unit(out)))
  /\ Borrowed
  /\ UNCHANGED <<handles, file>>

\* WebDriver::back
back ==
  /\ Live
  /\ \E out \in UnitOutcomes :
       Returned(Call("back", <<Cmd("Back", session_id, "")>>, <<out>>, map_unit(out)))
  /\ Borrowed
  /\ UNCHANGED <<handles, file>>

\* WebDriver::forward
forward ==
  /\ Live
  /\ \E out \in UnitOutcomes :
       Returned(Call("forward", <<Cmd("Forward", session_id, "")>>, <<out>>, map_unit(out)))
  /\ Borrowed
  /\ UNCHANGED <<handles, file>>

\* WebDriver::refresh
refresh ==
  /\ Live
  /\ \E out \in UnitOutcomes :
       Returned(Call("refresh", <<Cmd("Refresh", session_id, "")>>, <<out>>, map_unit(out)))
  /\ Borrowed
  /\ UNCHANGED <<handles, file>>

\* WebDriver::delete_cookie
delete_cookie ==
  /\ Live
  /\ \E out \in UnitOutcomes :
       Returned(Call("delete_cookie", <<Cmd("DeleteCookie", session_id, "name")>>, <<out>>, map_unit(out)))
  /\ Borrowed
  /\ UNCHANGED <<handles, file>>

\* WebDriver::delete_all_cookies
delete_all_cookies ==
  /\ Live
  /\ \E out \in UnitOutcomes :
       Returned(Call("delete_all_cookies", <<Cmd("DeleteAllCookies", session_id, "")>>, <<out>>, map_unit(out)))
  /\ Borrowed
  /\ UNCHANGED <<handles, file>>

\* WebDriver::add_cookie
add_cookie ==
  /\ Live
  /\ \E out \in UnitOutcomes :
       Returned(Call("add_cookie", <<Cmd("AddCookie", session_id, "cookie")>>, <<out>>, map_unit(out)))
  /\ Borrowed
  /\ UNCHANGED <<handles, file>>

\* TimeoutConfiguration::new(script, page_load, implicit): the fields that are Some
TimeoutConfigurations == {"script", "page_load", "implicit", "script,page_load,implicit"}

\* self.conn.execute(Command::SetTimeouts(&self.session_id, timeouts)).await.map(|_| ())
set_timeouts_call(op, timeouts, out) ==
  Call(op, <<Cmd("SetTimeouts", session_id, timeouts)>>, <<out>>, map_unit(out))

\* WebDriver::set_timeouts
set_timeouts ==
  /\ Live
  /\ \E timeouts \in TimeoutConfigurations, out \in UnitOutcomes :
       Returned(set_timeouts_call("set_timeouts", timeouts, out))
  /\ Borrowed
  /\ UNCHANGED <<handles, file>>

\* WebDriver::implicitly_wait
implicitly_wait ==
  /\ Live
  /\ \E out \in UnitOutcomes :
       Returned(set_timeouts_call("implicitly_wait", "implicit", out))
  /\ Borrowed
  /\ UNCHANGED <<handles, file>>

\* WebDriver::set_script_timeout
set_script_timeout ==
  /\ Live
  /\ \E out \in UnitOutcomes :
       Returned(set_timeouts_call("set_script_timeout", "script", out))
  /\ Borrowed
  /\ UNCHANGED <<handles, file>>

\* WebDriver::set_page_load_timeout
set_page_load_timeout ==
  /\ Live
  /\ \E out \in UnitOutcomes :
       Returned(set_timeouts_call("set_page_load_timeout", "page_load", out))
  /\ Borrowed
  /\ UNCHANGED <<handles, file>>

\* a current_url that sends the command again after a transport error
current_url_retries ==
  /\ Live
  /\ \E out \in Outcomes, again \in Outcomes :
       LET cmd == Cmd("GetCurrentUrl", session_id, "")
       IN  IF out.ok
           THEN Returned(Call("current_url", <<cmd>>, <<out>>,
                              unwrap("str", Index_value(out.v))))
           ELSE Returned(Call("current_url", <<cmd, cmd>>, <<out, again>>,
                              IF ~again.ok THEN Err(again.err)
                              ELSE unwrap("str", Index_value(again.v))))
  /\ Borrowed
  /\ UNCHANGED <<handles, file>>

\* WebDriver::current_url
current_url ==
  /\ Live
  /\ \E out \in Outcomes :
       Returned(Call("current_url", <<Cmd("GetCurrentUrl", session_id, "")>>, <<out>>,
                     IF ~out.ok THEN Err(out.err) ELSE unwrap("str", Index_value(out.v))))
  /\ Borrowed
  /\ UNCHANGED <<handles, file>>

\* WebDriver::page_source
page_source ==
  /\ Live
  /\ \E out \in Outcomes :
       Returned(Call("page_source", <<Cmd("GetPageSource", session_id, "")>>, <<out>>,
                     IF ~out.ok THEN Err(out.err) ELSE unwrap("str", Index_value(out.v))))
  /\ Borrowed
  /\ UNCHANGED <<handles, file>>

\* WebDriver::title
title ==
  /\ Live
  /\ \E out \in Outcomes :
       Returned(Call("title", <<Cmd("GetTitle", session_id, "")>>, <<out>>,
                     IF ~out.ok THEN Err(out.err) ELSE Ok(RV("str", as_str_or_default(Index_value(out.v)), <<>>))))
  /\ Borrowed
  /\ UNCHANGED <<handles, file>>

\* WebDriver::execute_script
execute_script ==
  /\ Live
  /\ \E out \in Outcomes :
       Returned(Call("execute_script", <<Cmd("ExecuteScript", session_id, "script")>>, <<out>>,
                     IF ~out.ok THEN Err(out.err) ELSE Ok(RV("json", Index_value(out.v).k, <<>>))))
  /\ Borrowed
  /\ UNCHANGED <<handles, file>>

\* WebDriver::execute_async_script
execute_async_script ==
  /\ Live
  /\ \E out \in Outcomes :
       Returned(Call("execute_async_script", <<Cmd("ExecuteAsyncScript", session_id, "script")>>, <<out>>,
                     IF ~out.ok THEN Err(out.err) ELSE Ok(RV("json", Index_value(out.v).k, <<>>))))
  /\ Borrowed
  /\ UNCHANGED <<handles, file>>

\* WebDriver::current_window_handle
current_window_handle ==
  /\ Live
  /\ \E out \in Outcomes :
       Returned(Call("current_window_handle", <<Cmd("GetWindowHandle", session_id, "")>>, <<out>>,
                     IF ~out.ok THEN Err(out.err) ELSE unwrap("str", Index_value(out.v))))
  /\ Borrowed
  /\ UNCHANGED <<handles, file>>

\* WebDriver::window_handles
window_handles ==
  /\ Live
  /\ \E out \in Outcomes :
       Returned(Call("window_handles", <<Cmd("GetWindowHandles", session_id, "")>>, <<out>>,
                     IF ~out.ok THEN Err(out.err) ELSE unwrap_vec("str", Index_value(out.v))))
  /\ Borrowed
  /\ UNCHANGED <<handles, file>>

\* WebDriver::get_window_rect
get_window_rect ==
  /\ Live
  /\ \E out \in Outcomes :
       Returned(Call("get_window_rect", <<Cmd("GetWindowRect", session_id, "")>>, <<out>>,
                     IF ~out.ok THEN Err(out.err) ELSE unwrap("rect", Index_value(out.v))))
  /\ Borrowed
  /\ UNCHANGED <<handles, file>>

\* WebDriver::get_cookies
get_cookies ==
  /\ Live
  /\ \E out \in Outcomes :
       Returned(Call("get_cookies", <<Cmd("GetAllCookies", session_id, "")>>, <<out>>,
                     IF ~out.ok THEN Err(out.err) ELSE unwrap_vec("cookie", Index_value(out.v))))
  /\ Borrowed
  /\ UNCHANGED <<handles, file>>

\* WebDriver::get_cookie
get_cookie ==
  /\ Live
  /\ \E out \in Outcomes :
       Returned(Call("get_cookie", <<Cmd("GetNamedCookie", session_id, "name")>>, <<out>>,
                     IF ~out.ok THEN Err(out.err) ELSE unwrap("cookie", Index_value(out.v))))
  /\ Borrowed
  /\ UNCHANGED <<handles, file>>

\* a WebElement or an ActionChain: it owns a clone of the session id
Handle(t, id, sid) == [t |-> t, id |-> id, session_id |-> sid]

Range(s) == {s[i] : i \in DOMAIN s}

\* WebDriver::find_element
find_element ==
  /\ Live
  /\ \E out \in Outcomes :
       LET r == IF ~out.ok THEN Err(out.err)
                ELSE unwrap_element_async(session_id, Index_value(out.v))
       IN  /\ Returned(Call("find_element", <<Cmd("FindElement", session_id, "by")>>,
                            <<out>>, r))
           /\ handles' = IF r.ok
                         THEN handles \cup {Handle("element", r.val.s, r.val.sid)}
                         ELSE handles
  /\ Borrowed
  /\ UNCHANGED file

\* WebDriver::find_elements
find_elements ==
  /\ Live
  /\ \E out \in Outcomes :
       LET r == IF ~out.ok THEN Err(out.err)
                ELSE unwrap_elements_async(session_id, Index_value(out.v))
       IN  /\ Returned(Call("find_elements", <<Cmd("FindElements", session_id, "by")>>,
                            <<out>>, r))
           /\ handles' = IF r.ok
                         THEN handles \cup {Handle("element", id, r.val.sid) :
                                              id \in Range(r.val.ids)}
                         ELSE handles
  /\ Borrowed
  /\ UNCHANGED file

\* WebDriver::action_chain
action_chain ==
  /\ Live
  /\ Returned(Call("action_chain", <<>>, <<>>, Ok(RVH("chain", "", <<>>, session_id))))
  /\ handles' = handles \cup {Handle("chain", "", session_id)}
  /\ Borrowed
  /\ UNCHANGED file

\* the body of WebDriver::screenshot_as_base64
screenshot_as_base64_call(op, out) ==
  Call(op, <<Cmd("TakeScreenshot", session_id, "")>>, <<out>>,
       IF ~out.ok THEN Err(out.err) ELSE unwrap("str", Index_value(out.v)))

\* the body of WebDriver::screenshot_as_png
screenshot_as_png_call(op, out) ==
  LET s == screenshot_as_base64_call(op, out)
  IN  IF ~s.result.ok THEN s ELSE [s EXCEPT !.result = decode(s.result.val.s)]

\* WebDriver::screenshot_as_base64
screenshot_as_base64 ==
  /\ Live
  /\ \E out \in Outcomes : Returned(screenshot_as_base64_call("screenshot_as_base64", out))
  /\ Borrowed
  /\ UNCHANGED <<handles, file>>

\* WebDriver::screenshot_as_png
screenshot_as_png ==
  /\ Live
  /\ \E out \in Outcomes : Returned(screenshot_as_png_call("screenshot_as_png", out))
  /\ Borrowed
  /\ UNCHANGED <<handles, file>>

\* what File::create and write_all may do
FsOutcomes == {"ok", "create_failed", "write_failed"}

\* WebDriver::screenshot
screenshot ==
  /\ Live
  /\ \E out \in Outcomes, fs \in FsOutcomes :
       LET png == screenshot_as_png_call("screenshot", out)
       IN  IF ~png.result.ok
           THEN Returned(png) /\ UNCHANGED file
           ELSE IF fs = "create_failed"
           THEN Returned([png EXCEPT !.result = Err("IoError")]) /\ UNCHANGED file
           ELSE IF fs = "write_failed"
           THEN /\ Returned([png EXCEPT !.result = Err("IoError")])
                /\ file' = [exists |-> TRUE, content |-> ""]
           ELSE /\ Returned([png EXCEPT !.result = Ok(Unit)])
                /\ file' = [exists |-> TRUE, content |-> png.result.val.s]
  /\ Borrowed
  /\ UNCHANGED handles

\* a drop that does not test the session id
drop_unconditional ==
  /\ phase = "live"
  /\ \E out \in UnitOutcomes :
       LET q == quit_call(out)
       IN  /\ last' = [q EXCEPT !.op = "drop", !.result = Ok(Unit)]
           /\ error_log' = IF ~q.result.ok
                           THEN Append(error_log, [msg |-> "Error closing session",
                                                   err |-> q.result.err])
                           ELSE error_log
  /\ phase' = "dropped"
  /\ new_resp' = NoResp
  /\ UNCHANGED <<session_id, capabilities, ncalls, handles, file, panicked, td>>

\* a drop that unwraps the result of quit instead of logging it
drop_unwraps ==
  /\ phase = "live"
  /\ IF session_id # ""
     THEN \E out \in UnitOutcomes :
            LET q == quit_call(out)
            IN  /\ last' = [q EXCEPT !.op = "drop", !.result = Ok(Unit)]
                /\ panicked' = ~q.result.ok
     ELSE /\ last' = Call("drop", <<>>, <<>>, Ok(Unit))
          /\ panicked' = panicked
  /\ phase' = "dropped"
  /\ new_resp' = NoResp
  /\ UNCHANGED <<session_id, capabilities, ncalls, handles, file, error_log, td>>

\* impl Drop for WebDriver
drop ==
  /\ phase = "live"
  /\ IF session_id # ""
     THEN \E out \in UnitOutcomes :
            LET q == quit_call(out)
            IN  /\ last' = [q EXCEPT !.op = "drop", !.result = Ok(Unit)]
                /\ error_log' = IF ~q.result.ok
                                THEN Append(error_log, [msg |-> "Error closing session",
                                                        err |-> q.result.err])
                                ELSE error_log
     ELSE /\ last' = Call("drop", <<>>, <<>>, Ok(Unit))
          /\ UNCHANGED error_log
  /\ phase' = "dropped"
  /\ new_resp' = NoResp
  /\ UNCHANGED <<session_id, capabilities, ncalls, handles, file, panicked, td>>

\* an operation of a WebElement the caller holds: one command carrying the
\* element's id and the element's own copy of the session id
WebElement_command ==
  /\ phase \in {"live", "dropped"}
  /\ ncalls < MaxCalls
  /\ \E h \in handles, out \in UnitOutcomes :
       /\ h.t = "element"
       /\ Returned(Call("WebElement", <<Cmd("ElementCommand", h.session_id, h.id)>>,
                        <<out>>, map_unit(out)))
  /\ UNCHANGED <<phase, session_id, capabilities, handles, file, error_log,
                 panicked, td>>

\* ActionChain::perform: the composed sequence is sent as one command
ActionChain_perform ==
  /\ phase \in {"live", "dropped"}
  /\ ncalls < MaxCalls
  /\ \E h \in handles, out \in UnitOutcomes :
       /\ h.t = "chain"
       /\ Returned(Call("ActionChain", <<Cmd("PerformActions", h.session_id, "")>>,
                        <<out>>, map_unit(out)))
  /\ UNCHANGED <<phase, session_id, capabilities, handles, file, error_log,
                 panicked, td>>

Next ==
  \/ new
  \/ capabilities_get
  \/ close
  \/ quit
  \/ get
  \/ current_url
  \/ page_source
  \/ title
  \/ find_element
  \/ find_elements
  \/ execute_script
  \/ execute_async_script
  \/ current_window_handle
  \/ window_handles
  \/ mazimize_window
  \/ minimize_window
  \/ fullscreen_window
  \/ get_window_rect
  \/ set_window_rect
  \/ back
  \/ forward
  \/ refresh
  \/ set_timeouts
  \/ implicitly_wait
  \/ set_script_timeout
  \/ set_page_load_timeout
  \/ action_chain
  \/ get_cookies
  \/ get_cookie
  \/ delete_cookie
  \/ delete_all_cookies
  \/ add_cookie
  \/ screenshot_as_base64
  \/ screenshot_as_png
  \/ screenshot
  \/ drop
  \/ WebElement_command
  \/ ActionChain_perform

Spec == Init /\ [][Next]_vars

NextKeys ==
  \/ AddKeys
  \/ AddTypingDataKeys
  \/ AddTypingData

SpecKeys == Init /\ [][NextKeys]_vars

\* ------------------------------------------------------------- properties
\* a field that carries no identifier: absent, or the empty string
NoId(f) == f.k = "absent" \/ (f.k = "str" /\ f.s = "")

\* a field that carries an identifier
HasId(f) == f.k = "str" /\ f.s # ""

\* new has just decoded a JSON object that has no key other than those of
\* the wire shape (`sessionId`, `value`)
NewDecoded == last.op = "new" /\ new_resp.k = "obj" /\ new_resp.session_id.k = "absent"

\* C1: WebDriver::new takes the session id from a non-empty top-level
\* `sessionId` (also when value.sessionId is present and different), and from
\* value.sessionId when `sessionId` appears only there.
C1_SessionIdResolved ==
  (NewDecoded /\ phase = "live") =>
    /\ HasId(new_resp.sessionId) => session_id = new_resp.sessionId.s
    /\ (new_resp.sessionId.k = "absent" /\ HasId(new_resp.value.sessionId)) =>
         session_id = new_resp.value.sessionId.s

\* C2: a new-session response with no session identifier at the top level and
\* none under `value` makes WebDriver::new return an error; new never returns
\* Ok with an empty session id.
C2_NoIdentifierIsAnError ==
  (NewDecoded /\ NoId(new_resp.sessionId)
     /\ (new_resp.value.k # "obj" \/ NoId(new_resp.value.sessionId))) =>
    (~last.result.ok /\ phase = "failed")

\* C3: drop dispatches DeleteSession with this session's id, and has its
\* response before it returns, if and only if the session id is non-empty;
\* with an empty session id it dispatches no command.
C3_DropEndsSession ==
  last.op = "drop" =>
    /\ phase = "dropped"
    /\ session_id # "" <=> last.sent = <<Cmd("DeleteSession", session_id, "")>>
    /\ session_id = "" <=> last.sent = <<>>
    /\ Len(last.outs) = Len(last.sent)

C3_Witness ==
  /\ last.op = "drop"
  /\ session_id = "A"
  /\ last.sent = <<Cmd("DeleteSession", "A", "")>>
  /\ Len(last.outs) = 1

\* C4: once the session has been ended by a quit() that succeeded, the
\* session id is empty.
C4_EndedSessionHasEmptyId ==
  (last.op = "quit" /\ last.result.ok) => session_id = ""

\* C5: a drop whose DeleteSession fails does not panic and does not propagate
\* the error; it completes, and the failure is reported once to the error log.
C5_DropSwallowsQuitError ==
  (last.op = "drop" /\ Len(last.outs) = 1 /\ ~last.outs[1].ok) =>
    /\ ~panicked
    /\ phase = "dropped"
    /\ last.result = Ok(Unit)
    /\ error_log = <<[msg |-> "Error closing session", err |-> last.outs[1].err]>>

C5_Witness ==
  /\ last.op = "drop"
  /\ Len(last.outs) = 1
  /\ last.outs[1] = Failure("HttpError")
  /\ Len(error_log) = 1
  /\ phase = "dropped"

\* the public operations that go to the transport
TransportOps ==
  {"close", "quit", "get", "current_url", "page_source", "title", "find_element",
   "find_elements", "execute_script", "execute_async_script",
   "current_window_handle", "window_handles", "mazimize_window",
   "minimize_window", "fullscreen_window", "get_window_rect", "set_window_rect",
   "back", "forward", "refresh", "set_timeouts", "implicitly_wait",
   "set_script_timeout", "set_page_load_timeout", "get_cookies", "get_cookie",
   "delete_cookie", "delete_all_cookies", "add_cookie", "screenshot_as_base64",
   "screenshot_as_png", "screenshot"}

\* C6: every invocation of a public Session operation calls the transport's
\* execute exactly once, and a transport error is returned to the caller as
\* it is, with no second attempt and no other command.
C6_OneExecutePerOperation ==
  last.op \in TransportOps =>
    /\ Len(last.sent) = 1
    /\ Len(last.outs) = 1
    /\ ~last.outs[1].ok => last.result = Err(last.outs[1].err)

C6_Witness ==
  /\ last.op = "screenshot"
  /\ last.sent = <<Cmd("TakeScreenshot", session_id, "")>>
  /\ last.outs = <<Failure("HttpError")>>
  /\ last.result = Err("HttpError")

\* the operations with a typed result, and the payload each expects
TypedOps ==
  {"current_url", "page_source", "title", "current_window_handle",
   "window_handles", "get_window_rect", "get_cookies", "get_cookie",
   "screenshot_as_base64"}

ExpectedShape(op, v) ==
  CASE op \in {"current_url", "page_source", "title", "current_window_handle",
               "screenshot_as_base64"} -> v.k = "str"
    [] op = "window_handles" -> v.k = "arr" /\ v.shape = "str"
    [] op = "get_cookies" -> v.k = "arr" /\ v.shape = "cookie"
    [] op = "get_window_rect" -> v.k = "obj" /\ v.shape = "rect"
    [] op = "get_cookie" -> v.k = "obj" /\ v.shape = "cookie"

\* C7: a value-returning operation whose response `value` does not have the
\* expected shape returns an error, never a successful empty or default result.
C7_WrongShapeIsAnError ==
  (last.op \in TypedOps /\ last.outs[1].ok
     /\ ~ExpectedShape(last.op, Index_value(last.outs[1].v))) =>
    ~last.result.ok

\* C8: k1 + k2 is the sequence [value(k1), value(k2)], of length 2, and t + k
\* is t's sequence followed by value(k).
C8_KeysAdd ==
  /\ td.op = "Keys+Keys" =>
       /\ Len(td.r) = 2
       /\ td.r[1] = value(td.k1)
       /\ td.r[2] = value(td.k2)
  /\ td.op = "TypingData+Keys" =>
       /\ Len(td.r) = Len(td.a) + 1
       /\ \A i \in 1..Len(td.a) : td.r[i] = td.a[i]
       /\ td.r[Len(td.r)] = value(td.k1)

C8_Witness ==
  /\ td.op = "Keys+Keys"
  /\ td.k1 = "Shift"
  /\ td.k2 = "Enter"
  /\ td.r = <<57352, 57351>>

\* C9: TypingData concatenation is associative, and a + b is a's characters
\* followed by b's characters, nothing added, dropped or reordered.
C9_TypingDataAddAssociative ==
  td.op = "TypingData+TypingData" =>
    /\ td.r2 = td.r3
    /\ Len(td.r) = Len(td.a) + Len(td.b)
    /\ \A i \in 1..Len(td.a) : td.r[i] = td.a[i]
    /\ \A i \in 1..Len(td.b) : td.r[Len(td.a) + i] = td.b[i]

C9_Witness ==
  /\ td.op = "TypingData+TypingData"
  /\ td.a = <<97>>
  /\ td.b = <<57352>>
  /\ td.c = <<57405, 97>>
  /\ td.r2 = <<97, 57352, 57405, 97>>
  /\ td.r3 = <<97, 57352, 57405, 97>>

\* C10: once constructed, no operation on the Session, on an element handle or
\* on an action chain changes the session id or the capabilities; every
\* command dispatched carries the id new established, and every handle holds
\* a copy of it.
C10_SessionIdentityFrame ==
  [][/\ phase \in {"live", "dropped"} =>
          (session_id' = session_id /\ capabilities' = capabilities)
     /\ \A i \in DOMAIN last'.sent :
          last'.sent[i].cmd # "NewSession" => last'.sent[i].sid = session_id'
     /\ \A h \in handles' : h.session_id = session_id']_vars

C10_Witness ==
  /\ last.op = "WebElement"
  /\ session_id = "A"
  /\ capabilities = "caps"
  /\ last.sent = <<Cmd("ElementCommand", "A", "e2")>>

====
